---- MODULE Spec2Model ----
(***************************************************************************)
(* A model of the AppSheet client library: the three versions of the       *)
(* library kept in the repository (the App class with its app() factory,   *)
(* the module singleton with find/findByKey, and the older singleton with  *)
(* findAll), their request executor makeRequest with its retry loop, the   *)
(* selector builder of find and the interpretation of the response.        *)
(***************************************************************************)
EXTENDS Integers, Sequences, FiniteSets

(***************************************************************************)
(* JavaScript values.  Every value is a record of one shape:               *)
(*   t      the type tag                                                   *)
(*   s      the characters of a string (a sequence of characters; a        *)
(*          multi-character chunk stands for a run of ordinary letters)    *)
(*   n      the value of a number (1/0 for a boolean)                      *)
(*   items  the elements of an array (k = <<>>) or the members of an       *)
(*          object (k = the key), in order                                 *)
(***************************************************************************)
Undefined == [t |-> "undefined", s |-> <<>>, n |-> 0, items |-> <<>>]

Null == [t |-> "null", s |-> <<>>, n |-> 0, items |-> <<>>]

NaN == [t |-> "number", s |-> <<"NaN">>, n |-> 0, items |-> <<>>]

Num(n) == [t |-> "number", s |-> <<>>, n |-> n, items |-> <<>>]

Str(s) == [t |-> "string", s |-> s, n |-> 0, items |-> <<>>]

Bool(b) == [t |-> "boolean", s |-> <<>>, n |-> IF b THEN 1 ELSE 0, items |-> <<>>]

Member(k, v) == [k |-> k, v |-> v]

Arr(vs) == [t |-> "array", s |-> <<>>, n |-> 0,
            items |-> [i \in 1..Len(vs) |-> Member(<<>>, vs[i])]]

Obj(ms) == [t |-> "object", s |-> <<>>, n |-> 0, items |-> ms]

IsNaN(v) == v.t = "number" /\ v.s = <<"NaN">>

\* typeof v === "number" / "string"
IsNumber(v) == v.t = "number"

IsString(v) == v.t = "string"

\* Array.isArray(v)
IsArray(v) == v.t = "array"

\* ToBoolean: the values an if, !, ||, ?: treat as true
Truthy(v) ==
  CASE v.t = "undefined" -> FALSE
    [] v.t = "null" -> FALSE
    [] v.t = "boolean" -> v.n = 1
    [] v.t = "number" -> ~IsNaN(v) /\ v.n # 0
    [] v.t = "string" -> v.s # <<>>
    [] OTHER -> TRUE

\* a < b and a >= b on numbers: every comparison with NaN is false
NumLt(a, b) == ~IsNaN(a) /\ ~IsNaN(b) /\ a.n < b.n

NumGe(a, b) == ~IsNaN(a) /\ ~IsNaN(b) /\ a.n >= b.n

\* the elements of an array value
Elems(v) == [i \in 1..Len(v.items) |-> v.items[i].v]

\* v[key] of an object: the value of the last member with that key
RECURSIVE Lookup(_, _)
Lookup(ms, key) ==
  IF ms = <<>> THEN Undefined
  ELSE IF ms[Len(ms)].k = key THEN ms[Len(ms)].v
  ELSE Lookup(SubSeq(ms, 1, Len(ms) - 1), key)

\* v.name of any value that is neither null nor undefined
Prop(v, key) == IF v.t = "object" THEN Lookup(v.items, key) ELSE Undefined

(***************************************************************************)
(* Text.  A string is a sequence of characters; template literals and      *)
(* JSON.stringify build it by concatenation, JSON.parse reads it back      *)
(* character by character.                                                 *)
(***************************************************************************)
QUOTE == "\""

BSLASH == "\\"

Digit == <<"0", "1", "2", "3", "4", "5", "6", "7", "8", "9">>

\* the decimal digits of a natural number
RECURSIVE NatToString(_)
NatToString(n) ==
  IF n < 10 THEN <<Digit[n + 1]>>
  ELSE NatToString(n \div 10) \o <<Digit[(n % 10) + 1]>>

\* String(v), as `${v}` computes it
StringOf(v) ==
  CASE v.t = "string" -> v.s
    [] v.t = "undefined" -> <<"undefined">>
    [] v.t = "null" -> <<"null">>
    [] v.t = "boolean" -> IF v.n = 1 THEN <<"true">> ELSE <<"false">>
    [] v.t = "number" ->
         IF IsNaN(v) THEN <<"NaN">>
         ELSE IF v.n < 0 THEN <<"-">> \o NatToString(-v.n)
         ELSE NatToString(v.n)
    [] OTHER -> <<"[object]">>

\* s.startsWith(p) for a one-character p
StartsWith(s, c) == Len(s) > 0 /\ s[1] = c

\* the characters of a JSON string literal: quotes and backslashes escaped
RECURSIVE Escape(_)
Escape(s) ==
  IF s = <<>> THEN <<>>
  ELSE (IF s[1] \in {QUOTE, BSLASH} THEN <<BSLASH, s[1]>> ELSE <<s[1]>>)
       \o Escape(Tail(s))

Quoted(s) == <<QUOTE>> \o Escape(s) \o <<QUOTE>>

\* JSON.stringify(v): a member whose value is undefined is left out, an
\* undefined array element and NaN are written as null
RECURSIVE Stringify(_), StringifyItems(_, _, _)
Stringify(v) ==
  CASE v.t = "null" -> <<"null">>
    [] v.t = "undefined" -> <<"null">>
    [] v.t = "boolean" -> IF v.n = 1 THEN <<"true">> ELSE <<"false">>
    [] v.t = "number" -> IF IsNaN(v) THEN <<"null">> ELSE StringOf(v)
    [] v.t = "string" -> Quoted(v.s)
    [] v.t = "array" -> <<"[">> \o StringifyItems(v.items, FALSE, TRUE) \o <<"]">>
    [] OTHER -> <<"{">> \o StringifyItems(v.items, TRUE, TRUE) \o <<"}">>

StringifyItems(ms, keyed, first) ==
  IF ms = <<>> THEN <<>>
  ELSE IF keyed /\ ms[1].v.t = "undefined"
       THEN StringifyItems(Tail(ms), keyed, first)
  ELSE (IF first THEN <<>> ELSE <<",">>)
       \o (IF keyed THEN Quoted(ms[1].k) \o <<":">> ELSE <<>>)
       \o Stringify(ms[1].v)
       \o StringifyItems(Tail(ms), keyed, FALSE)

\* the result of one parsing step: the value read and the text left
Parsed(v, rest) == [ok |-> TRUE, v |-> v, rest |-> rest]

NoParse == [ok |-> FALSE, v |-> Undefined, rest |-> <<>>]

IsDigit(c) == \E i \in 1..10 : Digit[i] = c

DigitVal(c) == (CHOOSE i \in 1..10 : Digit[i] = c) - 1

\* the characters of a string literal up to its closing quote
RECURSIVE ParseChars(_, _)
ParseChars(ts, acc) ==
  IF ts = <<>> THEN NoParse
  ELSE IF ts[1] = QUOTE THEN Parsed(Str(acc), Tail(ts))
  ELSE IF ts[1] = BSLASH
       THEN IF Len(ts) >= 2 /\ ts[2] \in {QUOTE, BSLASH}
            THEN ParseChars(SubSeq(ts, 3, Len(ts)), Append(acc, ts[2]))
            ELSE NoParse
  ELSE ParseChars(Tail(ts), Append(acc, ts[1]))

\* the digits of a number
RECURSIVE ParseDigits(_, _)
ParseDigits(ts, acc) ==
  IF ts # <<>> /\ IsDigit(ts[1])
  THEN ParseDigits(Tail(ts), acc * 10 + DigitVal(ts[1]))
  ELSE Parsed(Num(acc), ts)

RECURSIVE ParseValue(_), ParseElements(_, _), ParseMembers(_, _)
ParseValue(ts) ==
  IF ts = <<>> THEN NoParse
  ELSE CASE ts[1] = "null" -> Parsed(Null, Tail(ts))
         [] ts[1] = "true" -> Parsed(Bool(TRUE), Tail(ts))
         [] ts[1] = "false" -> Parsed(Bool(FALSE), Tail(ts))
         [] ts[1] = QUOTE -> ParseChars(Tail(ts), <<>>)
         [] IsDigit(ts[1]) -> ParseDigits(ts, 0)
         [] ts[1] = "[" ->
              IF Len(ts) >= 2 /\ ts[2] = "]"
              THEN Parsed(Arr(<<>>), SubSeq(ts, 3, Len(ts)))
              ELSE ParseElements(Tail(ts), <<>>)
         [] ts[1] = "{" ->
              IF Len(ts) >= 2 /\ ts[2] = "}"
              THEN Parsed(Obj(<<>>), SubSeq(ts, 3, Len(ts)))
              ELSE ParseMembers(Tail(ts), <<>>)
         [] OTHER -> NoParse

\* the elements of an array after "[" or ",", up to the closing "]"
ParseElements(ts, acc) ==
  LET e == ParseValue(ts) IN
  IF ~e.ok \/ e.rest = <<>> THEN NoParse
  ELSE IF e.rest[1] = "]" THEN Parsed(Arr(Append(acc, e.v)), Tail(e.rest))
  ELSE IF e.rest[1] = "," THEN ParseElements(Tail(e.rest), Append(acc, e.v))
  ELSE NoParse

\* the members of an object after "{" or ",", up to the closing "}"
ParseMembers(ts, acc) ==
  IF ts = <<>> \/ ts[1] # QUOTE THEN NoParse
  ELSE LET k == ParseChars(Tail(ts), <<>>) IN
       IF ~k.ok \/ k.rest = <<>> \/ k.rest[1] # ":" THEN NoParse
       ELSE LET e == ParseValue(Tail(k.rest)) IN
            IF ~e.ok \/ e.rest = <<>> THEN NoParse
            ELSE IF e.rest[1] = "}"
                 THEN Parsed(Obj(Append(acc, Member(k.v.s, e.v))), Tail(e.rest))
            ELSE IF e.rest[1] = ","
                 THEN ParseMembers(Tail(e.rest), Append(acc, Member(k.v.s, e.v)))
            ELSE NoParse

\* JSON.parse(text): the value, or a SyntaxError when the text is not one
\* complete JSON value
JSONparse(text) ==
  LET r == ParseValue(text) IN
  IF r.ok /\ r.rest = <<>> THEN [threw |-> FALSE, v |-> r.v]
  ELSE [threw |-> TRUE, v |-> Undefined]

(***************************************************************************)
(* Bounds and inputs                                                       *)
(***************************************************************************)
\* the largest retry ceiling a caller passes to app()
MaxCeiling == 2

\* the largest number of rows in a response body or in a records argument
MaxRows == 2

\* CONFIG.maxRetries of the two module singletons
SingletonMaxRetries == 2

\* the milliseconds makeRequest sleeps before it tries again
BackoffMs == 500

Files == {"part_001", "main.js", "part_000"}

\* the record {"id": "<i>"}
Rec(i) == Obj(<<Member(<<"id">>, Str(NatToString(i)))>>)

\* the rows <<Rec(1), ..., Rec(k)>>
Rows(k) == [i \in 1..k |-> Rec(i)]

RowSeqs == {Rows(k) : k \in 0..MaxRows}

Tables == {Str(<<"T">>)}

FilterConditions == {Undefined, Str(<<"X=1">>)}

OrderBys == {Undefined, Str(<<"name">>), Str(<<"[", "name", "]">>), Str(<<"[", "name">>)}

Descs == {Undefined, Bool(FALSE), Bool(TRUE)}

Limits == {Undefined, Num(-1), Num(0), Num(5), Str(<<"5">>)}

\* the records argument of add, update and deleteRows
RecordInputs ==
  {Undefined, Null, Bool(FALSE), Num(0), NaN, Str(<<>>), Rec(1), Str(<<"x">>),
   Num(5)}
  \cup {Arr(rs) : rs \in RowSeqs} \cup {Arr(<<Rec(2), Rec(1)>>)}

KeyColumns == {Str(<<"id">>)}

KeyValues == {Str(<<"1">>), Str(<<"7">>), Num(1)}

\* what UrlFetchApp.fetch throws
Causes == {"timeout", "dns"}

StatusCodes == {200, 404, 500}

\* response bodies: JSON arrays of rows, JSON objects wrapping a rows array,
\* other JSON values, text that is not JSON, and the empty body
Bodies ==
  {Stringify(Arr(rs)) : rs \in RowSeqs}
  \cup {Stringify(Obj(<<Member(<<"rows">>, Arr(rs))>>)) : rs \in RowSeqs}
  \cup {Stringify(Null), Stringify(Obj(<<>>)), Stringify(Str(<<"text">>)),
        Stringify(Obj(<<Member(<<"rows">>, Num(3))>>)), <<>>, <<"not json">>}

(***************************************************************************)
(* The pure functions of the library                                       *)
(***************************************************************************)
\* normalizeRecords that wraps every truthy input, a sequence as well
normalizeRecordsAlwaysWrap(input) ==
  IF ~Truthy(input) THEN Arr(<<>>) ELSE Arr(<<input>>)

normalizeRecords(input) ==
  IF ~Truthy(input) THEN Arr(<<>>)
  ELSE IF IsArray(input) THEN input ELSE Arr(<<input>>)

parseRowsReturned(content) ==
  IF IsArray(content) THEN Len(content.items)
  ELSE IF Truthy(content) /\ IsArray(Prop(content, <<"rows">>))
       THEN Len(Prop(content, <<"rows">>).items)
  ELSE 0

\* const col = orderBy.startsWith("[") ? orderBy : `[${orderBy}]`
orderColumn(orderBy) ==
  IF StartsWith(orderBy.s, "[") THEN orderBy.s ELSE <<"[">> \o orderBy.s \o <<"]">>

\* isAsc with the two literals exchanged
isAscSwapped(desc) ==
  LET d == IF desc.t = "undefined" THEN Bool(FALSE) ELSE desc IN
  IF Truthy(d) THEN <<"TRUE">> ELSE <<"FALSE">>

\* const isAsc = desc ? "FALSE" : "TRUE"   (desc = false when not passed)
isAsc(desc) ==
  LET d == IF desc.t = "undefined" THEN Bool(FALSE) ELSE desc IN
  IF Truthy(d) THEN <<"FALSE">> ELSE <<"TRUE">>

\* buildSelector with the limit applied before the order
buildSelectorTopInside(tableName, filterCondition, orderBy, desc, limit) ==
  LET filter == IF Truthy(filterCondition) THEN filterCondition ELSE Str(<<"TRUE">>)
      base == <<"Filter(">> \o StringOf(tableName) \o <<", ">> \o StringOf(filter)
              \o <<")">>
      limited == IF IsNumber(limit) /\ NumLt(Num(0), limit)
                 THEN <<"Top(">> \o base \o <<", ">> \o StringOf(limit) \o <<")">>
                 ELSE base
      ordered == IF Truthy(orderBy)
                 THEN <<"OrderBy(">> \o limited \o <<", ">> \o orderColumn(orderBy)
                      \o <<", ">> \o isAsc(desc) \o <<")">>
                 ELSE limited
  IN Str(ordered)

\* the selector find builds from its arguments
buildSelector(tableName, filterCondition, orderBy, desc, limit) ==
  LET filter == IF Truthy(filterCondition) THEN filterCondition ELSE Str(<<"TRUE">>)
      base == <<"Filter(">> \o StringOf(tableName) \o <<", ">> \o StringOf(filter)
              \o <<")">>
      ordered == IF Truthy(orderBy)
                 THEN <<"OrderBy(">> \o base \o <<", ">> \o orderColumn(orderBy)
                      \o <<", ">> \o isAsc(desc) \o <<")">>
                 ELSE base
      limited == IF IsNumber(limit) /\ NumLt(Num(0), limit)
                 THEN <<"Top(">> \o ordered \o <<", ">> \o StringOf(limit) \o <<")">>
                 ELSE ordered
  IN Str(limited)

\* buildPayload that always sends Properties, the Selector null when absent
buildPayloadAlwaysSelector(action, rows, selector) ==
  Obj(<<Member(<<"Action">>, Str(<<action>>)), Member(<<"Rows">>, rows),
        Member(<<"Properties">>, Obj(<<Member(<<"Selector">>, selector)>>))>>)

\* the payload object makeRequest builds; the older singleton (part_000)
\* has no selector parameter and never adds Properties
buildPayload(action, rows, selector) ==
  Obj(<<Member(<<"Action">>, Str(<<action>>)), Member(<<"Rows">>, rows)>>
      \o IF Truthy(selector)
         THEN <<Member(<<"Properties">>, Obj(<<Member(<<"Selector">>, selector)>>))>>
         ELSE <<>>)

\* the ApiResponse {code, content, rowsReturned}
ApiResponse(code, content, rowsReturned) ==
  [code |-> code, content |-> content, rowsReturned |-> rowsReturned]

NoResult == ApiResponse(0, Undefined, 0)

\* an error thrown to the caller: kind "config" (the factory's validation),
\* "exhausted" (the retry loop gave up; attempts is the number its message
\* reports, cause the exception of the last attempt), or the name of a
\* JavaScript runtime error
Thrown(kind, attempts, cause) == [kind |-> kind, attempts |-> attempts, cause |-> cause]

NoError == Thrown("none", Undefined, "")

\* the outcome of a piece of code: a value returned or an error thrown
Returns(v) == [threw |-> FALSE, error |-> NoError, v |-> v]

Throws(kind) == [threw |-> TRUE, error |-> Thrown(kind, Undefined, ""), v |-> NoResult]

(***************************************************************************)
(* The interpretation of a response, in each version of makeRequest        *)
(***************************************************************************)
\* part_001: JSON.parse in a try block, the raw text (or null) on failure,
\* the row count by parseRowsReturned
interpretLibrary(code, contentText) ==
  LET p == JSONparse(contentText)
      content == IF ~p.threw THEN p.v
                 ELSE IF Truthy(Str(contentText)) THEN Str(contentText) ELSE Null
  IN Returns(ApiResponse(code, content, parseRowsReturned(content)))

\* main.js: JSON.parse outside any try block, the row count of arrays only
interpretMain(code, contentText) ==
  LET p == JSONparse(contentText) IN
  IF p.threw THEN Throws("SyntaxError")
  ELSE Returns(ApiResponse(code, p.v, IF IsArray(p.v) THEN Len(p.v.items) ELSE 0))

\* part_000: JSONParser?.toParsed?.(contentText) ?? contentText.  JSONParser
\* is a global this repository does not define: where it is not declared the
\* expression throws a ReferenceError, where it is, toParsed gives the parsed
\* value (nullish for text that is not JSON), and a nullish value falls back
\* to the raw text
interpretLegacy(parserDeclared, code, contentText) ==
  IF ~parserDeclared THEN Throws("ReferenceError")
  ELSE LET p == JSONparse(contentText)
           content == IF p.threw \/ p.v.t \in {"null", "undefined"}
                      THEN Str(contentText) ELSE p.v
       IN Returns(ApiResponse(code, content,
                              IF IsArray(content) THEN Len(content.items) ELSE 0))

interpret(f, parserDeclared, code, contentText) ==
  CASE f = "part_001" -> interpretLibrary(code, contentText)
    [] f = "main.js" -> interpretMain(code, contentText)
    [] OTHER -> interpretLegacy(parserDeclared, code, contentText)

(***************************************************************************)
(* findByKey, after its query has returned                                 *)
(***************************************************************************)
\* content.length > 0 ? content[0] : null, for a content that is not null
firstOf(content) ==
  CASE content.t = "array" ->
         IF Len(content.items) > 0 THEN content.items[1].v ELSE Null
    [] content.t = "string" ->
         IF Len(content.s) > 0 THEN Str(<<content.s[1]>>) ELSE Null
    [] content.t = "object" ->
         LET len == Prop(content, <<"length">>) IN
         IF IsNumber(len) /\ NumLt(Num(0), len) THEN Prop(content, <<"0">>) ELSE Null
    [] OTHER -> Null

\* main.js: the first element of the find result, rowsReturned recomputed
findByKeyMain(found) ==
  IF found.code # 200 THEN Returns(found)
  ELSE IF found.content.t \in {"null", "undefined"} THEN Throws("TypeError")
  ELSE LET match == firstOf(found.content) IN
       Returns(ApiResponse(found.code, match, IF Truthy(match) THEN 1 ELSE 0))

\* a === b for a primitive b
StrictEq(a, b) == a.t \notin {"array", "object"} /\ ~IsNaN(a) /\ a = b

\* rows.find(r => r[keyColumn] === keyValue): the index of the first match,
\* 0 when there is none, -1 when reading r[keyColumn] throws (r is null)
RECURSIVE findIndex(_, _, _, _)
findIndex(rows, i, keyColumn, keyValue) ==
  IF i > Len(rows) THEN 0
  ELSE IF rows[i].t \in {"null", "undefined"} THEN -1
  ELSE IF StrictEq(Prop(rows[i], keyColumn.s), keyValue) THEN i
  ELSE findIndex(rows, i + 1, keyColumn, keyValue)

\* part_000: the match is searched in the rows of findAll, rowsReturned is
\* left as findAll computed it
findByKeyLegacy(found, keyColumn, keyValue) ==
  IF found.code # 200 THEN Returns(found)
  ELSE IF ~IsArray(found.content) THEN Throws("TypeError")
  ELSE LET i == findIndex(Elems(found.content), 1, keyColumn, keyValue) IN
       IF i < 0 THEN Throws("TypeError")
       ELSE Returns(ApiResponse(found.code,
                                IF i = 0 THEN Null ELSE Elems(found.content)[i],
                                found.rowsReturned))

(***************************************************************************)
(* State                                                                   *)
(***************************************************************************)
VARIABLES
  file,        \* the version of the library that is loaded
  JSONParser,  \* whether a global JSONParser is declared (read by part_000)
  CONFIG,      \* the configuration of the client; made = FALSE before app()
  pc,          \* "idle", "fetch" (inside the retry loop, about to call
               \* UrlFetchApp.fetch), "returned" or "threw"
  call,        \* the operation in progress or last finished, and its arguments
  request,     \* the url and options of the request makeRequest built
  attempts,    \* makeRequest's counter of failed attempts
  log,         \* what the call did so far: the cause of every failed
               \* fetch, "ok" for the fetch that returned, "sleep" for a pause
  sleeps,      \* the milliseconds of every Utilities.sleep of the call
  response,    \* the HTTP response of the fetch that returned
  apiResponse, \* what makeRequest returned
  result,      \* what the operation returned to its caller
  error        \* what the operation threw to its caller

vars == <<file, JSONParser, CONFIG, pc, call, request, attempts, log, sleeps,
          response, apiResponse, result, error>>

Config(made, appId, key, region, maxRetries) ==
  [made |-> made, appId |-> appId, applicationAccessKey |-> key,
   appsheetRegion |-> region,
   baseUrl |-> <<"https://">> \o StringOf(region) \o <<"/api/v2/apps/">>
               \o StringOf(appId) \o <<"/tables">>,
   maxRetries |-> maxRetries]

NoConfig == Config(FALSE, Undefined, Undefined, Undefined, Undefined)

\* the CONFIG object each module singleton embeds
SingletonConfig(f) ==
  IF f = "main.js"
  THEN Config(TRUE, Str(<<"98c5f507-7163-4f46-ab8b-f946a9839222">>), Str(<<>>),
              Str(<<"www.appsheet.com">>), Num(SingletonMaxRetries))
  ELSE Config(TRUE, Str(<<>>), Str(<<>>), Str(<<>>), Num(SingletonMaxRetries))

Call(op, tableName, filterCondition, orderBy, desc, limit, records, keyColumn, keyValue) ==
  [op |-> op, tableName |-> tableName, filterCondition |-> filterCondition,
   orderBy |-> orderBy, desc |-> desc, limit |-> limit, records |-> records,
   keyColumn |-> keyColumn, keyValue |-> keyValue]

NoCall == Call("none", Undefined, Undefined, Undefined, Undefined, Undefined,
               Undefined, Undefined, Undefined)

NoRequest == [url |-> <<>>, method |-> "", payload |-> <<>>, ApplicationAccessKey |-> <<>>]

NoResponse == [code |-> 0, contentText |-> <<>>]

Init ==
  /\ file \in Files
  /\ JSONParser \in (IF file = "part_000" THEN BOOLEAN ELSE {FALSE})
  /\ CONFIG = IF file = "part_001" THEN NoConfig ELSE SingletonConfig(file)
  /\ pc = "idle"
  /\ call = NoCall
  /\ request = NoRequest
  /\ attempts = 0
  /\ log = <<>>
  /\ sleeps = <<>>
  /\ response = NoResponse
  /\ apiResponse = NoResult
  /\ result = NoResult
  /\ error = NoError

(***************************************************************************)
(* The factory app() of part_001                                           *)
(***************************************************************************)
AppIds == {Undefined, Str(<<>>), Num(7), Str(<<"app">>)}

AccessKeys == {Undefined, Str(<<>>), Str(<<"key">>)}

Regions == {Undefined, Str(<<"www.appsheet.com">>), Str(<<"eu.appsheet.com">>),
            Str(<<"us.appsheet.com">>)}

Ceilings == {Undefined, NaN, Str(<<"2">>)} \cup {Num(n) : n \in 0..MaxCeiling}

\* a parameter with a default value takes it when the argument is undefined
Default(v, d) == IF v.t = "undefined" THEN d ELSE v

\* the first check of app() that fails, "" when all pass
appCheck(appId, applicationAccessKey, appsheetRegion, maxRetries) ==
  IF ~Truthy(appId) \/ ~IsString(appId) \/ Len(appId.s) = 0 THEN "appId"
  ELSE IF ~Truthy(applicationAccessKey) \/ ~IsString(applicationAccessKey)
          \/ Len(applicationAccessKey.s) = 0
       THEN "applicationAccessKey"
  ELSE IF appsheetRegion # Str(<<"www.appsheet.com">>)
          /\ appsheetRegion # Str(<<"eu.appsheet.com">>)
       THEN "appsheetRegion"
  ELSE IF ~IsNumber(maxRetries) \/ NumLt(maxRetries, Num(1)) THEN "maxRetries"
  ELSE ""

app(appId, applicationAccessKey, region, ceiling) ==
  LET appsheetRegion == Default(region, Str(<<"www.appsheet.com">>))
      maxRetries == Default(ceiling, Num(2))
      failed == appCheck(appId, applicationAccessKey, appsheetRegion, maxRetries)
  IN /\ file = "part_001"
     /\ ~CONFIG.made
     /\ pc \in {"idle", "threw"}
     /\ IF failed # ""
        THEN /\ pc' = "threw"
             /\ error' = Thrown("config", Undefined, failed)
             /\ UNCHANGED CONFIG
        ELSE /\ pc' = "idle"
             /\ error' = NoError
             /\ CONFIG' = Config(TRUE, appId, applicationAccessKey, appsheetRegion,
                                 maxRetries)
     /\ UNCHANGED <<file, JSONParser, call, request, attempts, log, sleeps,
                    response, apiResponse, result>>

(***************************************************************************)
(* makeRequest: the request, the retry loop, the interpretation            *)
(***************************************************************************)
\* a call starts from the top level of the calling script, on a client
Ready == CONFIG.made /\ pc = "idle"

\* while (attempts < maxRetries)
loopContinues(a) == NumLt(Num(a), CONFIG.maxRetries)

\* the start of makeRequest up to its first fetch: the url, the payload and
\* the options; when the loop condition is false at once, response stays
\* undefined and response.getResponseCode() throws a TypeError
makeRequest(table, action, rows, selector) ==
  /\ request' = [url |-> CONFIG.baseUrl \o <<"/">> \o StringOf(table) \o <<"/Action">>,
                 method |-> "post",
                 payload |-> Stringify(buildPayload(action, rows, selector)),
                 ApplicationAccessKey |-> StringOf(CONFIG.applicationAccessKey)]
  /\ attempts' = 0
  /\ log' = <<>>
  /\ sleeps' = <<>>
  /\ response' = NoResponse
  /\ apiResponse' = NoResult
  /\ result' = NoResult
  /\ IF loopContinues(0)
     THEN pc' = "fetch" /\ error' = NoError
     ELSE pc' = "threw" /\ error' = Thrown("TypeError", Undefined, "")
  /\ UNCHANGED <<file, JSONParser, CONFIG>>

\* fetchThrows with the ceiling compared by > instead of >=
fetchThrowsOffByOne(cause) ==
  /\ pc = "fetch"
  /\ attempts' = attempts + 1
  /\ IF ~IsNaN(CONFIG.maxRetries) /\ attempts + 1 > CONFIG.maxRetries.n
     THEN /\ log' = Append(log, cause)
          /\ UNCHANGED sleeps
          /\ pc' = "threw"
          /\ error' = Thrown("exhausted", CONFIG.maxRetries, cause)
     ELSE /\ log' = log \o <<cause, "sleep">>
          /\ sleeps' = Append(sleeps, BackoffMs)
          /\ IF loopContinues(attempts + 1)
             THEN pc' = "fetch" /\ error' = NoError
             ELSE pc' = "threw" /\ error' = Thrown("TypeError", Undefined, "")
  /\ UNCHANGED <<file, JSONParser, CONFIG, call, request, response, apiResponse,
                 result>>

\* fetchThrows that sleeps before it compares the attempts with the ceiling
fetchThrowsSleepsFirst(cause) ==
  /\ pc = "fetch"
  /\ attempts' = attempts + 1
  /\ log' = log \o <<cause, "sleep">>
  /\ sleeps' = Append(sleeps, BackoffMs)
  /\ IF NumGe(Num(attempts + 1), CONFIG.maxRetries)
     THEN /\ pc' = "threw"
          /\ error' = Thrown("exhausted", CONFIG.maxRetries, cause)
     ELSE IF loopContinues(attempts + 1)
          THEN pc' = "fetch" /\ error' = NoError
          ELSE pc' = "threw" /\ error' = Thrown("TypeError", Undefined, "")
  /\ UNCHANGED <<file, JSONParser, CONFIG, call, request, response, apiResponse,
                 result>>

\* UrlFetchApp.fetch throws: the catch block counts the attempt, then gives
\* up with the terminal error or sleeps and goes round the loop
fetchThrows(cause) ==
  /\ pc = "fetch"
  /\ attempts' = attempts + 1
  /\ IF NumGe(Num(attempts + 1), CONFIG.maxRetries)
     THEN /\ log' = Append(log, cause)
          /\ UNCHANGED sleeps
          /\ pc' = "threw"
          /\ error' = Thrown("exhausted", CONFIG.maxRetries, cause)
     ELSE /\ log' = log \o <<cause, "sleep">>
          /\ sleeps' = Append(sleeps, BackoffMs)
          /\ IF loopContinues(attempts + 1)
             THEN pc' = "fetch" /\ error' = NoError
             ELSE pc' = "threw" /\ error' = Thrown("TypeError", Undefined, "")
  /\ UNCHANGED <<file, JSONParser, CONFIG, call, request, response, apiResponse,
                 result>>

\* fetchReturns without the break: the loop goes on after a response
fetchReturnsNoBreak(code, contentText) ==
  /\ pc = "fetch"
  /\ log' = Append(log, "ok")
  /\ response' = [code |-> code, contentText |-> contentText]
  /\ UNCHANGED <<file, JSONParser, CONFIG, pc, call, request, attempts, sleeps,
                 apiResponse, result, error>>

\* fetchReturns that treats a 5xx status as a failed attempt
fetchReturnsRetry5xx(code, contentText) ==
  /\ pc = "fetch"
  /\ response' = [code |-> code, contentText |-> contentText]
  /\ IF code >= 500 /\ loopContinues(attempts + 1)
     THEN /\ log' = log \o <<"ok", "sleep">>
          /\ sleeps' = Append(sleeps, BackoffMs)
          /\ attempts' = attempts + 1
          /\ UNCHANGED <<pc, apiResponse, result, error>>
     ELSE /\ log' = Append(log, "ok")
          /\ LET made == interpret(file, JSONParser, code, contentText) IN
             /\ apiResponse' = made.v
             /\ result' = made.v
             /\ error' = made.error
             /\ pc' = IF made.threw THEN "threw" ELSE "returned"
          /\ UNCHANGED <<attempts, sleeps>>
  /\ UNCHANGED <<file, JSONParser, CONFIG, call, request>>

\* UrlFetchApp.fetch returns a response (muteHttpExceptions: whatever its
\* status): the loop is left, the response interpreted and returned;
\* findByKey then picks its record out of what makeRequest returned
fetchReturns(code, contentText) ==
  /\ pc = "fetch"
  /\ log' = Append(log, "ok")
  /\ response' = [code |-> code, contentText |-> contentText]
  /\ LET made == interpret(file, JSONParser, code, contentText)
         out == IF made.threw \/ call.op # "findByKey" THEN made
                ELSE IF file = "main.js" THEN findByKeyMain(made.v)
                ELSE findByKeyLegacy(made.v, call.keyColumn, call.keyValue)
     IN /\ apiResponse' = made.v
        /\ result' = out.v
        /\ error' = out.error
        /\ pc' = IF out.threw THEN "threw" ELSE "returned"
  /\ UNCHANGED <<file, JSONParser, CONFIG, call, request, attempts, sleeps>>

(***************************************************************************)
(* The operations of the client                                            *)
(***************************************************************************)
find(tableName, filterCondition, orderBy, desc, limit) ==
  /\ Ready
  /\ file \in {"part_001", "main.js"}
  /\ call' = Call("find", tableName, filterCondition, orderBy, desc, limit,
                  Undefined, Undefined, Undefined)
  /\ makeRequest(tableName, "Find", Arr(<<>>),
                 buildSelector(tableName, filterCondition, orderBy, desc, limit))

findAll(tableOrSlice) ==
  /\ Ready
  /\ file = "part_000"
  /\ call' = Call("findAll", tableOrSlice, Undefined, Undefined, Undefined,
                  Undefined, Undefined, Undefined, Undefined)
  /\ makeRequest(tableOrSlice, "Find", Arr(<<>>), Null)

add(tableName, records) ==
  /\ Ready
  /\ call' = Call("add", tableName, Undefined, Undefined, Undefined, Undefined,
                  records, Undefined, Undefined)
  /\ makeRequest(tableName, "Add", normalizeRecords(records), Null)

update(tableName, records) ==
  /\ Ready
  /\ call' = Call("update", tableName, Undefined, Undefined, Undefined, Undefined,
                  records, Undefined, Undefined)
  /\ makeRequest(tableName, "Edit", normalizeRecords(records), Null)

deleteRows(tableName, records) ==
  /\ Ready
  /\ call' = Call("deleteRows", tableName, Undefined, Undefined, Undefined,
                  Undefined, records, Undefined, Undefined)
  /\ makeRequest(tableName, "Delete", normalizeRecords(records), Null)

\* the filter condition findByKey of main.js passes to find
keyCondition(keyColumn, keyValue) ==
  Str(<<"[">> \o StringOf(keyColumn) \o <<"] = ", QUOTE>> \o StringOf(keyValue)
      \o <<QUOTE>>)

\* main.js queries through find with a key condition, part_000 through
\* findAll; part_001 has no findByKey
findByKey(tableName, keyColumn, keyValue) ==
  /\ Ready
  /\ file \in {"main.js", "part_000"}
  /\ call' = Call("findByKey", tableName, Undefined, Undefined, Undefined,
                  Undefined, Undefined, keyColumn, keyValue)
  /\ makeRequest(tableName, "Find", Arr(<<>>),
                 IF file = "main.js"
                 THEN buildSelector(tableName, keyCondition(keyColumn, keyValue),
                                    Undefined, Undefined, Undefined)
                 ELSE Null)

\* the caller has the value returned, or has caught the error thrown: control
\* is back at the top level and the locals of the call are gone
done ==
  /\ CONFIG.made
  /\ pc \in {"returned", "threw"}
  /\ pc' = "idle"
  /\ call' = NoCall
  /\ request' = NoRequest
  /\ attempts' = 0
  /\ log' = <<>>
  /\ sleeps' = <<>>
  /\ response' = NoResponse
  /\ apiResponse' = NoResult
  /\ result' = NoResult
  /\ error' = NoError
  /\ UNCHANGED <<file, JSONParser, CONFIG>>

Next ==
  \/ \E a \in AppIds, k \in AccessKeys, r \in Regions, c \in Ceilings : app(a, k, r, c)
  \/ \E t \in Tables, f \in FilterConditions, o \in OrderBys, d \in Descs,
        l \in Limits : find(t, f, o, d, l)
  \/ \E t \in Tables : findAll(t)
  \/ \E t \in Tables, rs \in RecordInputs : add(t, rs)
  \/ \E t \in Tables, rs \in RecordInputs : update(t, rs)
  \/ \E t \in Tables, rs \in RecordInputs : deleteRows(t, rs)
  \/ \E t \in Tables, c \in KeyColumns, v \in KeyValues : findByKey(t, c, v)
  \/ \E c \in Causes : fetchThrows(c)
  \/ \E c \in StatusCodes, b \in Bodies : fetchReturns(c, b)
  \/ done

Spec == Init /\ [][Next]_vars

\* the library of part_001 alone: the App class, its factory and makeRequest
InitLibrary == Init /\ file = "part_001"

NextLibrary ==
  \/ \E a \in AppIds, k \in AccessKeys, r \in Regions, c \in Ceilings : app(a, k, r, c)
  \/ \E t \in Tables, f \in FilterConditions, o \in OrderBys, d \in Descs,
        l \in Limits : find(t, f, o, d, l)
  \/ \E t \in Tables, rs \in RecordInputs : add(t, rs)
  \/ \E t \in Tables, rs \in RecordInputs : update(t, rs)
  \/ \E t \in Tables, rs \in RecordInputs : deleteRows(t, rs)
  \/ \E c \in Causes : fetchThrows(c)
  \/ \E c \in StatusCodes, b \in Bodies : fetchReturns(c, b)
  \/ done

SpecLibrary == InitLibrary /\ [][NextLibrary]_vars

(***************************************************************************)
(* What a call did, read from its log                                      *)
(***************************************************************************)
\* the positions of the network calls (every entry but the pauses)
FetchAt == {i \in 1..Len(log) : log[i] # "sleep"}

\* the positions of the network calls that threw
ThrowAt == {i \in 1..Len(log) : log[i] \in Causes}

Fetches == Cardinality(FetchAt)

Succeeded == \E i \in 1..Len(log) : log[i] = "ok"

InCall == call.op # "none"

Ended == InCall /\ pc \in {"returned", "threw"}

\* the retry ceiling is a number >= 1
CeilingOk == NumGe(CONFIG.maxRetries, Num(1))

C3_ErrorStatusNotRetried ==
  /\ \A i \in 1..Len(log) :
       (log[i] = "ok" /\ response.code >= 400) =>
         /\ i = Len(log)
         /\ pc = "returned"
         /\ error = NoError
         /\ apiResponse.code = response.code
         /\ result.code = response.code
  /\ \A i \in FetchAt :
       i > 1 => (i > 2 /\ log[i - 1] = "sleep" /\ log[i - 2] \in Causes)

C3_Witness ==
  /\ file = "part_001"
  /\ pc = "returned"
  /\ result.code = 500
  /\ log = <<"ok">>

\* the module singleton of main.js alone
InitMain == Init /\ file = "main.js"

NextMain ==
  \/ \E t \in Tables, f \in FilterConditions, o \in OrderBys, d \in Descs,
        l \in Limits : find(t, f, o, d, l)
  \/ \E t \in Tables, rs \in RecordInputs : add(t, rs)
  \/ \E t \in Tables, rs \in RecordInputs : update(t, rs)
  \/ \E t \in Tables, rs \in RecordInputs : deleteRows(t, rs)
  \/ \E t \in Tables, c \in KeyColumns, v \in KeyValues : findByKey(t, c, v)
  \/ \E c \in Causes : fetchThrows(c)
  \/ \E c \in StatusCodes, b \in Bodies : fetchReturns(c, b)
  \/ done

SpecMain == InitMain /\ [][NextMain]_vars

(***************************************************************************)
(* C4: a call on a constructed client ends in one of two ways only: it     *)
(* raises the transport-exhaustion error, or it returns a well-formed      *)
(* {code, content, rowsReturned}; the only other error there is, the       *)
(* configuration error, is raised by the factory and leaves no client.     *)
(***************************************************************************)
C4_OnlyTwoAborts ==
  /\ pc = "threw" => error.kind \in {"config", "exhausted"}
  /\ error.kind = "config" => ~CONFIG.made
  /\ (InCall /\ pc = "threw") => error.kind = "exhausted"
  /\ (InCall /\ pc = "returned") =>
       /\ error = NoError
       /\ result.code \in StatusCodes
       /\ result.content.t # "undefined"
       /\ result.rowsReturned >= 0

(***************************************************************************)
(* The request a call sends, read back from the text of its payload        *)
(***************************************************************************)
Sent == InCall /\ (pc = "fetch" \/ Fetches >= 1)

sentPayload == JSONparse(request.payload).v

\* the keys of an object
Keys(obj) == {obj.items[i].k : i \in 1..Len(obj.items)}

sentProperties == Prop(sentPayload, <<"Properties">>)

sentSelector == Prop(sentProperties, <<"Selector">>)

\* the operations that hand a selector to makeRequest
SuppliesSelector == call.op = "find" \/ (call.op = "findByKey" /\ file = "main.js")

\* the Action each operation asks for
ActionOf(op) ==
  CASE op = "add" -> "Add"
    [] op = "update" -> "Edit"
    [] op = "deleteRows" -> "Delete"
    [] OTHER -> "Find"

(***************************************************************************)
(* C5: the payload of every request sent is {Action, Rows}, with a         *)
(* Properties.Selector entry exactly when a selector was supplied to       *)
(* makeRequest, and the Selector is never sent as null: a request of add,  *)
(* update or deleteRows has no Properties, a request of find has           *)
(* Properties = {Selector: the selector built from its arguments}.         *)
(***************************************************************************)
C5_SelectorOnlyWhenSupplied ==
  Sent =>
    LET read == JSONparse(request.payload)
        payload == read.v
        properties == Prop(payload, <<"Properties">>)
        selector == Prop(properties, <<"Selector">>)
    IN /\ ~read.threw
       /\ payload.t = "object"
       /\ Prop(payload, <<"Action">>) = Str(<<ActionOf(call.op)>>)
       /\ IsArray(Prop(payload, <<"Rows">>))
       /\ Keys(payload) = {<<"Action">>, <<"Rows">>}
                          \cup (IF SuppliesSelector THEN {<<"Properties">>} ELSE {})
       /\ call.op \in {"add", "update", "deleteRows"} => properties = Undefined
       /\ <<"Properties">> \in Keys(payload) =>
            /\ properties.t = "object"
            /\ Keys(properties) = {<<"Selector">>}
            /\ IsString(selector)
            /\ selector.s # <<>>
       /\ call.op = "find" =>
            selector = buildSelector(call.tableName, call.filterCondition,
                                     call.orderBy, call.desc, call.limit)

C5_Witness ==
  /\ pc = "fetch"
  /\ call.op = "add"
  /\ sentProperties = Undefined
  /\ Prop(sentPayload, <<"Rows">>) = Arr(<<Rec(1)>>)

(***************************************************************************)
(* The arguments of a find call, as the claims about the selector read     *)
(* them                                                                    *)
(***************************************************************************)
FindSent == Sent /\ call.op = "find"

\* a condition, a column to order by, is given
Given(v) == IsString(v) /\ v.s # <<>>

\* limit is a positive number
LimitGiven == IsNumber(call.limit) /\ ~IsNaN(call.limit) /\ call.limit.n > 0

\* descending is asked for
Descending == call.desc = Bool(TRUE)

\* Filter(<table>, <condition>), the condition TRUE when none is given
FilterText ==
  <<"Filter(">> \o call.tableName.s \o <<", ">>
  \o (IF Given(call.filterCondition) THEN call.filterCondition.s ELSE <<"TRUE">>)
  \o <<")">>

\* where a word occurs in a selector
Places(sel, word) == {i \in 1..Len(sel) : sel[i] = word}

\* a selector without its Top wrapper
OrderedText(sel) ==
  IF LimitGiven
  THEN SubSeq(sel, 2, Len(sel) - 2 - Len(NatToString(call.limit.n)))
  ELSE sel

(***************************************************************************)
(* C6: the selector of every find nests filter, then order, then limit:    *)
(* the innermost expression is Filter(<table>, <condition>), the condition *)
(* TRUE when none is given; there is an OrderBy wrapper exactly when       *)
(* orderBy is given, and it wraps the Filter directly; there is a Top      *)
(* wrapper exactly when limit is a positive number, and it is outermost.   *)
(* find("T") sends Filter(T, TRUE); find("T", "X=1", "name", false, 5)     *)
(* sends Top(OrderBy(Filter(T, X=1), [name], TRUE), 5).                    *)
(***************************************************************************)
C6_FilterOrderLimit ==
  FindSent =>
    LET top == IF LimitGiven THEN 1 ELSE 0
        order == IF Given(call.orderBy) THEN 1 ELSE 0
        sel == sentSelector.s
    IN /\ Places(sel, "Top(") = (IF LimitGiven THEN {1} ELSE {})
       /\ Places(sel, "OrderBy(") = (IF Given(call.orderBy) THEN {top + 1} ELSE {})
       /\ Places(sel, "Filter(") = {top + order + 1}
       /\ SubSeq(sel, top + order + 1, top + order + Len(FilterText)) = FilterText
       /\ LimitGiven =>
            SubSeq(sel, Len(sel) - 1 - Len(NatToString(call.limit.n)), Len(sel))
              = <<", ">> \o NatToString(call.limit.n) \o <<")">>
       /\ (top = 0 /\ order = 0) => sel = FilterText
       /\ (~Given(call.filterCondition) /\ top = 0 /\ order = 0) =>
            sel = <<"Filter(", "T", ", ", "TRUE", ")">>
       /\ (call.filterCondition = Str(<<"X=1">>) /\ call.orderBy = Str(<<"name">>)
           /\ call.desc = Bool(FALSE) /\ call.limit = Num(5)) =>
            sel = <<"Top(", "OrderBy(", "Filter(", "T", ", ", "X=1", ")", ", ",
                    "[", "name", "]", ", ", "TRUE", ")", ", ", "5", ")">>

C6_Witness ==
  /\ FindSent
  /\ call.limit = Num(5)
  /\ sentSelector.s = <<"Top(", "OrderBy(", "Filter(", "T", ", ", "X=1", ")", ", ",
                        "[", "name", "]", ", ", "TRUE", ")", ", ", "5", ")">>

(***************************************************************************)
(* C7 as stated: when orderBy is given the wrapper is                      *)
(* OrderBy(<base>, <column>, <flag>), the column being the caller's column *)
(* wrapped in brackets unless the caller already delimited it with         *)
(* brackets, the flag TRUE when descending is false and FALSE when true.   *)
(***************************************************************************)
BracketDelimited(col) == Len(col) >= 2 /\ col[1] = "[" /\ col[Len(col)] = "]"

C7_ColumnBracketedUnlessDelimited ==
  (FindSent /\ Given(call.orderBy)) =>
    OrderedText(sentSelector.s) = <<"OrderBy(">> \o FilterText \o <<", ">>
                  \o (IF BracketDelimited(call.orderBy.s) THEN call.orderBy.s
                      ELSE <<"[">> \o call.orderBy.s \o <<"]">>)
                  \o <<", ">> \o <<IF Descending THEN "FALSE" ELSE "TRUE">> \o <<")">>

(***************************************************************************)
(* C7 as amended: the column is left as given when it begins with "[" and  *)
(* wrapped in brackets otherwise; the flag is TRUE when descending is      *)
(* false and FALSE when it is true.                                        *)
(***************************************************************************)
C7_ColumnBracketedUnlessLeadingBracket ==
  (FindSent /\ Given(call.orderBy)) =>
    OrderedText(sentSelector.s) = <<"OrderBy(">> \o FilterText \o <<", ">>
                  \o (IF call.orderBy.s[1] = "[" THEN call.orderBy.s
                      ELSE <<"[">> \o call.orderBy.s \o <<"]">>)
                  \o <<", ">> \o <<IF Descending THEN "FALSE" ELSE "TRUE">> \o <<")">>

C7_Witness ==
  /\ FindSent
  /\ call.orderBy = Str(<<"name">>)
  /\ Descending
  /\ sentSelector.s = <<"OrderBy(", "Filter(", "T", ", ", "X=1", ")", ", ",
                        "[", "name", "]", ", ", "FALSE", ")">>

(***************************************************************************)
(* C8: interpreting a response never throws, whatever the body: content is *)
(* the parsed value when the body is JSON, the raw text when it is not,    *)
(* null when it is empty.                                                  *)
(***************************************************************************)
C8_InterpretNeverThrows ==
  Succeeded =>
    LET read == JSONparse(response.contentText) IN
    /\ error.kind \notin {"SyntaxError", "ReferenceError"}
    /\ apiResponse.code = response.code
    /\ apiResponse.content =
         (IF ~read.threw THEN read.v
          ELSE IF response.contentText = <<>> THEN Null
          ELSE Str(response.contentText))

(***************************************************************************)
(* C9: rowsReturned of the ApiResponse makeRequest returns is the length   *)
(* of content when content is a sequence, else the length of content.rows  *)
(* when content is a mapping with a rows sequence, else 0.                 *)
(***************************************************************************)
RowCount(content) ==
  IF content.t = "array" THEN Len(content.items)
  ELSE IF content.t = "object" /\ Prop(content, <<"rows">>).t = "array"
       THEN Len(Prop(content, <<"rows">>).items)
  ELSE 0

C9_RowsReturned ==
  (Succeeded /\ error.kind \notin {"SyntaxError", "ReferenceError"}) =>
    apiResponse.rowsReturned = RowCount(apiResponse.content)

(***************************************************************************)
(* C10: findByKey(table, keyColumn, keyValue) issues one find whose filter *)
(* condition is [keyColumn] = "keyValue"; when the status of that find is  *)
(* not 200 it returns the response of the find unchanged; otherwise it     *)
(* returns the first record of the find result with rowsReturned = 1, or   *)
(* content = null with rowsReturned = 0 when there is no record.           *)
(***************************************************************************)
C10_FindByKey ==
  (Sent /\ call.op = "findByKey") =>
    /\ sentSelector =
         Str(<<"Filter(">> \o call.tableName.s \o <<", ", "[">> \o call.keyColumn.s
             \o <<"] = ", QUOTE>> \o StringOf(call.keyValue) \o <<QUOTE, ")">>)
    /\ Succeeded =>
         /\ pc = "returned"
         /\ Fetches = 1 + Cardinality(ThrowAt)
         /\ result.code = response.code
         /\ response.code # 200 => result = apiResponse
         /\ response.code = 200 =>
              IF IsArray(apiResponse.content) /\ Len(apiResponse.content.items) > 0
              THEN /\ result.content = apiResponse.content.items[1].v
                   /\ result.rowsReturned = 1
              ELSE /\ result.content = Null
                   /\ result.rowsReturned = 0

\* a non-empty string
NonEmptyString(v) == v.t = "string" /\ Len(v.s) >= 1

(***************************************************************************)
(* C11: app() fails with a configuration error, before any network call    *)
(* and without returning a client, whenever the app id or the access key   *)
(* is not a non-empty string, the region is not one of the two accepted    *)
(* literals, or the retry ceiling is not a number >= 1; so every client    *)
(* that exists was given valid arguments, which the constructor stored as  *)
(* they were, and has a retry ceiling that is a number >= 1.               *)
(***************************************************************************)
C11_ConstructionValidated ==
  /\ error.kind = "config" =>
       /\ ~CONFIG.made
       /\ pc = "threw"
       /\ call = NoCall
       /\ request = NoRequest
       /\ log = <<>>
  /\ CONFIG.made =>
       /\ NonEmptyString(CONFIG.appId)
       /\ NonEmptyString(CONFIG.applicationAccessKey)
       /\ CONFIG.appsheetRegion \in {Str(<<"www.appsheet.com">>),
                                     Str(<<"eu.appsheet.com">>)}
       /\ CONFIG.maxRetries.t = "number"
       /\ ~IsNaN(CONFIG.maxRetries)
       /\ CONFIG.maxRetries.n >= 1

\* the values of JavaScript that count as false
Falsy == {Undefined, Null, Bool(FALSE), Num(0), NaN, Str(<<>>)}

\* the operations that take records
TakesRecords == call.op \in {"add", "update", "deleteRows"}

(***************************************************************************)
(* C12: normalizeRecords returns the empty sequence for every falsy input, *)
(* a one-element sequence holding the input for every truthy input that is *)
(* not a sequence, and the sequence itself, in its order, for every        *)
(* sequence; the Rows of the request add, update and deleteRows send are   *)
(* exactly that sequence.                                                  *)
(***************************************************************************)
C12_RowsAreNormalizedRecords ==
  TakesRecords =>
    LET input == call.records
        rows == normalizeRecords(input)
        sentRows == Prop(JSONparse(request.payload).v, <<"Rows">>)
    IN /\ rows.t = "array"
       /\ input \in Falsy => Len(rows.items) = 0
       /\ (input \notin Falsy /\ input.t # "array") =>
            /\ Len(rows.items) = 1
            /\ rows.items[1].v = input
       /\ input.t = "array" =>
            /\ Len(rows.items) = Len(input.items)
            /\ \A i \in 1..Len(input.items) : rows.items[i].v = input.items[i].v
       /\ sentRows = rows
       /\ input.t = "array" => sentRows = input

\* deleteRows sent two records in the order they were given
C12_Witness ==
  /\ call.op = "deleteRows"
  /\ pc = "fetch"
  /\ call.records = Arr(<<Rec(2), Rec(1)>>)
  /\ Elems(Prop(JSONparse(request.payload).v, <<"Rows">>)) = <<Rec(2), Rec(1)>>

\* the places of the log where the call paused
PauseAt == {i \in 1..Len(log) : log[i] = "sleep"}

(***************************************************************************)
(* C13: within one makeRequest call every pause is of 500 ms; a pause      *)
(* comes directly after a failed attempt and is followed by the next       *)
(* attempt, so none precedes the first attempt and none follows an attempt *)
(* that succeeded; every failed attempt is followed by exactly one pause,  *)
(* except the failed attempt that reaches the retry ceiling, after which   *)
(* the terminal error is raised without a pause.  A call that has ended    *)
(* after n >= 1 attempts has paused n - 1 times, and a call that made no   *)
(* attempt has not paused.                                                 *)
(***************************************************************************)
C13_PauseBetweenAttempts ==
  /\ Len(sleeps) = Cardinality(PauseAt)
  /\ \A j \in 1..Len(sleeps) : sleeps[j] = BackoffMs
  /\ \A i \in PauseAt :
       /\ i > 1
       /\ log[i - 1] \in Causes
       /\ i < Len(log) => log[i + 1] # "sleep"
       /\ i = Len(log) => pc = "fetch"
  /\ \A i \in ThrowAt :
       /\ i < Len(log) => log[i + 1] = "sleep"
       /\ i = Len(log) =>
            /\ pc = "threw"
            /\ error.kind = "exhausted"
            /\ Num(Fetches) = CONFIG.maxRetries
  /\ \A i \in 1..Len(log) : log[i] = "ok" => i = Len(log)
  /\ pc = "fetch" => Cardinality(PauseAt) = Fetches
  /\ Ended =>
       Cardinality(PauseAt) = IF Fetches = 0 THEN 0 ELSE Fetches - 1

\* a call that ended with the terminal error after one pause of 500 ms
C13_Witness ==
  /\ pc = "threw"
  /\ error.kind = "exhausted"
  /\ log = <<"dns", "sleep", "timeout">>
  /\ sleeps = <<BackoffMs>>

====
